---- MODULE Spec2Model ----
(***************************************************************************)
(* Model of procrastinate/psycopg3_connector.py: the Psycopg3Connector     *)
(* pool lifecycle (open_async / close_async / pool), the two decorators    *)
(* wrap_exceptions and wrap_query_exceptions around the query entry        *)
(* points, and listen_notify / _loop_notify.                               *)
(*                                                                         *)
(* The psycopg_pool.AsyncConnectionPool and the psycopg connection are the *)
(* environment: a pool is "new" (constructed, open=False), "open" or       *)
(* "closed"; AsyncConnectionPool.open() on a closed pool raises PoolClosed *)
(* (a psycopg.OperationalError), connection() on a pool that is not open   *)
(* raises PoolClosed, and on an exhausted pool waits or raises PoolTimeout.*)
(***************************************************************************)
EXTENDS Integers, Sequences, FiniteSets, TLC

\* ---------------------------------------------------------------- bounds
\* Largest max_size a pool of the model is configured with.
MaxPoolSize == 2
\* Number of pools this layer may construct (calls of _create_pool).
MaxCreated == 2
\* Number of distinct pools a caller may supply to open_async.
NumExternal == 2
\* Number of concurrent query operations.
NumQueries == 1
\* Number of channel names handed to listen_notify.
NumChannels == 2
\* Number of query operations run concurrently against a pool gone stale.
NumStormQueries == 2
\* Number of restarts of the database server.
MaxRestarts == 1
\* Number of close_async calls suspended in pool.close() at the same time.
MaxClosing == 2

\* ------------------------------------------------------------ identities
\* self._pool = None
None == 0
ExternalPools == 1..NumExternal
InternalPools == (NumExternal + 1)..(NumExternal + MaxCreated)
PoolIds == ExternalPools \cup InternalPools
Queries == 1..NumQueries
StormQueries == 1..NumStormQueries
QueryTasks == Queries \cup StormQueries
PoolSizes == 1..MaxPoolSize

\* ------------------------------------------------------------ exceptions
\* An exception object: its class, its message (a sequence of phrases), the
\* attempt that raised it (its identity), and what it is chained from
\* (raise ... from cause).  n is the number quoted by the retrier's message.
StalePhrase == "server closed the connection unexpectedly"
StaleMessage == <<StalePhrase, "This probably means the server terminated abnormally">>
OtherMessage == <<"terminating connection due to administrator command">>
NoMessage == << >>
Messages == {StaleMessage, OtherMessage}

\* psycopg.errors.UniqueViolation, psycopg.OperationalError and the other
\* subclasses of psycopg.Error; "Exception" is a failure that is no psycopg.Error.
DriverClasses == {"OperationalError", "UniqueViolation", "Error"}
RaisedClasses == DriverClasses \cup {"Exception"}

NoExc ==
    [cls |-> "None", msg |-> NoMessage, at |-> 0, n |-> 0,
     causeCls |-> "None", causeMsg |-> NoMessage, causeAt |-> 0]

Raised(cls, msg, at) ==
    [cls |-> cls, msg |-> msg, at |-> at, n |-> 0,
     causeCls |-> "None", causeMsg |-> NoMessage, causeAt |-> 0]

\* raise new from cause
From(cls, n, cause) ==
    [cls |-> cls, msg |-> NoMessage, at |-> 0, n |-> n,
     causeCls |-> cause.cls, causeMsg |-> cause.msg, causeAt |-> cause.at]

\* isinstance(exc, psycopg.Error)
IsPsycopgError(exc) == exc.cls \in DriverClasses
\* isinstance(exc, psycopg.errors.UniqueViolation)
IsUniqueViolation(exc) == exc.cls = "UniqueViolation"
\* isinstance(exc, psycopg.errors.OperationalError)
IsOperationalError(exc) == exc.cls = "OperationalError"
\* "server closed the connection unexpectedly" in str(exc)
HasStaleMessage(exc) == \E i \in 1..Len(exc.msg) : exc.msg[i] = StalePhrase

\* wrap_exceptions: what the caller sees when the wrapped coroutine raises exc.
WrapExceptions(exc) ==
    IF IsUniqueViolation(exc) THEN Raised("exceptions.UniqueViolation", NoMessage, 0)
    ELSE IF IsPsycopgError(exc) THEN From("ConnectorException", 0, exc)
    ELSE exc

\* ----------------------------------------------------------------- state
VARIABLES
    _pool,                 \* self._pool: None or the identity of a pool
    _pool_externally_set,  \* self._pool_externally_set
    _pool_args,            \* self._pool_args["max_size"]
    pools,                 \* the pools that exist, by identity
    created,               \* number of pools constructed by _create_pool
    call,                  \* the last open_async / close_async call and its outcome
    q,                     \* the query operations, by task
    b,                     \* the listen_notify task
    event,                 \* the asyncio.Event handed to listen_notify
    restarts,              \* number of times the database server has restarted
    closing                \* number of close_async calls suspended in pool.close()

vars ==
    <<_pool, _pool_externally_set, _pool_args, pools, created, call, q, b, event,
      restarts, closing>>

\* A pool nobody has constructed yet.
\* borrowed counts the connections handed out, stale the idle connections
\* of the pool that the server has closed behind its back.
AbsentPool ==
    [state |-> "absent", max_size |-> 1, closeCalls |-> 0, borrowed |-> 0, stale |-> 0]
\* psycopg_pool.AsyncConnectionPool(**pool_args) with "open": False
NewPool(max_size) ==
    [state |-> "new", max_size |-> max_size, closeCalls |-> 0, borrowed |-> 0, stale |-> 0]

\* AsyncConnectionPool.open(): a pool that was closed cannot be reopened.
PoolClosedError == Raised("OperationalError", <<"the pool has already been opened/closed and cannot be reused">>, 0)
PoolOpenRaises(pool) == pool.state = "closed"
PoolAfterOpen(pool) == IF pool.state = "new" THEN [pool EXCEPT !.state = "open"] ELSE pool
\* AsyncConnectionPool.close(): returns at once on a pool that is not open.
PoolAfterClose(pool) ==
    [pool EXCEPT !.state = IF pool.state = "open" THEN "closed" ELSE pool.state,
                 !.closeCalls = pool.closeCalls + 1,
                 !.stale = 0]

\* The last call of open_async / close_async: its argument, and what it raised.
NoCall == [op |-> "none", arg |-> None, exc |-> NoExc]
Called(op, arg, exc) == [op |-> op, arg |-> arg, exc |-> exc]

\* ---------------------------------------------------------- pool lifecycle
\* open_async, line 170: if self._pool: return
OpenIsNoOpNever == FALSE
OpenIsNoOp == _pool # None

\* open_async with an externally created pool (lines 173-175, 180).  The pool
\* the caller supplies is in whatever state its owner left it.
OpenAsyncExternal(e, st, m) ==
    /\ pools[e].state = "absent" \/ (pools[e].state = st /\ pools[e].max_size = m)
    /\ LET supplied == [pools[e] EXCEPT !.state = st, !.max_size = m]
       IN  IF OpenIsNoOp
           THEN /\ call' = Called("open", e, NoExc)
                /\ UNCHANGED <<_pool, _pool_externally_set, pools, created>>
           ELSE /\ _pool_externally_set' = TRUE
                /\ _pool' = e
                /\ pools' = [pools EXCEPT ![e] = PoolAfterOpen(supplied)]
                /\ call' = Called("open", e,
                                  IF PoolOpenRaises(supplied) THEN PoolClosedError ELSE NoExc)
                /\ UNCHANGED created
    /\ UNCHANGED <<_pool_args, q, b, event, restarts, closing>>

\* open_async without a pool (lines 176-177, 180): _create_pool, then open().
OpenAsyncInternal ==
    /\ IF OpenIsNoOp
       THEN /\ call' = Called("open", None, NoExc)
            /\ UNCHANGED <<_pool, _pool_externally_set, pools, created>>
       ELSE /\ created < MaxCreated
            /\ LET new == NumExternal + created + 1
               IN  /\ created' = created + 1
                   /\ _pool' = new
                   /\ pools' = [pools EXCEPT ![new] = PoolAfterOpen(NewPool(_pool_args))]
                   /\ call' = Called("open", None, NoExc)
            /\ UNCHANGED _pool_externally_set
    /\ UNCHANGED <<_pool_args, q, b, event, restarts, closing>>

\* close_async, line 194: if not self._pool or self._pool_externally_set: return
CloseIsNoOpUnlessEmpty == _pool = None
CloseIsNoOp == _pool = None \/ _pool_externally_set

\* close_async, line 198: self._pool = None
HandleKeptAfterClose == _pool
HandleAfterClose == None

\* close_async (lines 189-198)
CloseAsync ==
    /\ IF CloseIsNoOp
       THEN UNCHANGED <<_pool, pools>>
       ELSE /\ pools' = [pools EXCEPT ![_pool] = PoolAfterClose(pools[_pool])]
            /\ _pool' = HandleAfterClose
    /\ call' = Called("close", None, NoExc)
    /\ UNCHANGED <<_pool_externally_set, _pool_args, created, q, b, event, restarts, closing>>

\* close_async run by concurrent tasks.  await self._pool.close() (line 196)
\* marks an open pool closed and then suspends while the pool stops its
\* workers and closes its connections; on a pool that is not open it returns
\* without suspending (that call is CloseAsync).  Lines 194-196, up to the
\* suspension:
CloseAsyncSuspends ==
    /\ ~CloseIsNoOp
    /\ pools[_pool].state = "open"
    /\ closing < MaxClosing
    /\ pools' = [pools EXCEPT ![_pool] = PoolAfterClose(pools[_pool])]
    /\ closing' = closing + 1
    /\ UNCHANGED <<_pool, _pool_externally_set, _pool_args, created, call, q, b, event, restarts>>

\* Line 198, once pool.close() has returned: self._pool = None
CloseAsyncResumes ==
    /\ closing > 0
    /\ closing' = closing - 1
    /\ _pool' = HandleAfterClose
    /\ call' = Called("close", None, NoExc)
    /\ UNCHANGED <<_pool_externally_set, _pool_args, pools, created, q, b, event, restarts>>

\* ------------------------------------------------------------ the retrier
\* The pool accessor (lines 200-206): raises AppNotOpen when self._pool is None.
AppNotOpen(at) == Raised("AppNotOpen", NoMessage, at)
PoolAccessorRaises == _pool = None

\* wrap_query_exceptions, lines 61-64: the retry budget.
MaxTriesWithoutPlusOne == IF _pool = None THEN 1 ELSE pools[_pool].max_size
MaxTriesZeroWhenNotOpen == IF _pool = None THEN 0 ELSE pools[_pool].max_size + 1
MaxTries == IF _pool = None THEN 1 ELSE pools[_pool].max_size + 1

\* wrap_query_exceptions, lines 68-69: the failure that is swallowed and retried.
RetriesAnyOperationalError(exc) == IsOperationalError(exc)
Retries(exc) == IsOperationalError(exc) /\ HasStaleMessage(exc)

\* A query operation that is not running.
IdleQuery ==
    [pc |-> "idle", max_tries |-> 0, tries |-> 0, p |-> None, final_exc |-> NoExc,
     last |-> NoExc, exc |-> NoExc, startPool |-> None, stale |-> FALSE,
     startRestarts |-> 0]

\* The decorated coroutine ends: wrap_exceptions (outermost) translates what
\* the retrier lets through.
Finish(r, raised) == [r EXCEPT !.pc = "done", !.exc = WrapExceptions(raised), !.p = None]

\* One pass of "for _ in range(max_tries)": the coroutine is called, and runs
\* without suspending up to self.pool (lines 219, 228, 238).
StartAttempt(r) ==
    LET r1 == [r EXCEPT !.tries = r.tries + 1]
    IN  IF PoolAccessorRaises
        THEN Finish([r1 EXCEPT !.last = AppNotOpen(r1.tries)], AppNotOpen(r1.tries))
        ELSE [r1 EXCEPT !.pc = "acquire", !.p = _pool]

\* lines 73-75: raise ConnectorException(...) from final_exc
Exhausted(r) == From("ConnectorException", r.max_tries, r.final_exc)

\* line 65, for _ in range(max_tries): another pass, or the loop is over.
NextPass(r) == IF r.tries < r.max_tries THEN StartAttempt(r) ELSE Finish(r, Exhausted(r))

\* lines 66-72: what the retrier does with the failure exc of an attempt.
AfterFailure(r, exc) ==
    LET r1 == [r EXCEPT !.last = exc]
    IN  IF Retries(exc) THEN NextPass([r1 EXCEPT !.final_exc = exc])
        ELSE Finish(r1, exc)

\* A query entry point is called (lines 216-241): the retrier sizes its
\* budget and enters its loop.  startPool remembers self._pool at the call.
QueryCall(i) ==
    /\ q[i].pc = "idle"
    /\ q' = [q EXCEPT ![i] =
                NextPass([IdleQuery EXCEPT !.max_tries = MaxTries, !.startPool = _pool,
                                           !.startRestarts = restarts])]
    /\ UNCHANGED <<_pool, _pool_externally_set, _pool_args, pools, created, call, b, event, restarts, closing>>

\* pool.connection() hands out a connection.
PoolTimeout(at) == Raised("OperationalError", <<"couldn't get a connection">>, at)
PoolNotOpen(at) == Raised("OperationalError", <<"the pool is not open">>, at)

\* Leaving "async with self.pool.connection()" (lines 219-221, 228-230,
\* 238-241): the connection goes back to the pool, which drops it when it is
\* broken.
NotGivenBack(pool) == pool
GivenBack(pool) == [pool EXCEPT !.borrowed = @ - 1]

\* The pool hands out a working connection: an idle one, or a new one.
QueryAcquire(i) ==
    /\ q[i].pc = "acquire"
    /\ pools[q[i].p].state = "open"
    /\ pools[q[i].p].borrowed + pools[q[i].p].stale < pools[q[i].p].max_size
    /\ pools' = [pools EXCEPT ![q[i].p].borrowed = @ + 1]
    /\ q' = [q EXCEPT ![i].pc = "held", ![i].stale = FALSE]
    /\ UNCHANGED <<_pool, _pool_externally_set, _pool_args, created, call, b, event, restarts, closing>>

\* The pool hands out one of its idle connections that the server has closed.
QueryAcquireStale(i) ==
    /\ q[i].pc = "acquire"
    /\ pools[q[i].p].state = "open"
    /\ pools[q[i].p].stale > 0
    /\ pools' = [pools EXCEPT ![q[i].p].borrowed = @ + 1, ![q[i].p].stale = @ - 1]
    /\ q' = [q EXCEPT ![i].pc = "held", ![i].stale = TRUE]
    /\ UNCHANGED <<_pool, _pool_externally_set, _pool_args, created, call, b, event, restarts, closing>>

\* pool.connection() raises: the pool is not open, or no connection came
\* free in time.
QueryAcquireFails(i) ==
    /\ q[i].pc = "acquire"
    /\ \/ /\ pools[q[i].p].state # "open"
          /\ q' = [q EXCEPT ![i] = AfterFailure(q[i], PoolNotOpen(q[i].tries))]
       \/ /\ pools[q[i].p].state = "open"
          /\ pools[q[i].p].borrowed = pools[q[i].p].max_size
          /\ q' = [q EXCEPT ![i] = AfterFailure(q[i], PoolTimeout(q[i].tries))]
    /\ UNCHANGED <<_pool, _pool_externally_set, _pool_args, pools, created, call, b, event, restarts, closing>>

\* cursor.execute (and fetch) succeeds; the connection goes back to the pool.
QueryExecuteOk(i) ==
    /\ q[i].pc = "held"
    /\ ~q[i].stale
    /\ pools' = [pools EXCEPT ![q[i].p] = GivenBack(@)]
    /\ q' = [q EXCEPT ![i].pc = "done", ![i].p = None, ![i].last = NoExc]
    /\ UNCHANGED <<_pool, _pool_externally_set, _pool_args, created, call, b, event, restarts, closing>>

\* cursor.execute raises; the connection goes back to the pool on the way out.
QueryExecuteFails(i, cls, msg) ==
    /\ q[i].pc = "held"
    /\ ~q[i].stale
    /\ pools' = [pools EXCEPT ![q[i].p] = GivenBack(@)]
    /\ q' = [q EXCEPT ![i] = AfterFailure([q[i] EXCEPT !.stale = FALSE],
                                          Raised(cls, msg, q[i].tries))]
    /\ UNCHANGED <<_pool, _pool_externally_set, _pool_args, created, call, b, event, restarts, closing>>

\* cursor.execute on a connection the server has closed raises the
\* OperationalError "server closed the connection unexpectedly"; the pool
\* drops the broken connection when it comes back.
QueryExecuteStale(i) ==
    /\ q[i].pc = "held"
    /\ q[i].stale
    /\ pools' = [pools EXCEPT ![q[i].p] = GivenBack(@)]
    /\ q' = [q EXCEPT ![i] = AfterFailure([q[i] EXCEPT !.stale = FALSE],
                                          Raised("OperationalError", StaleMessage, q[i].tries))]
    /\ UNCHANGED <<_pool, _pool_externally_set, _pool_args, created, call, b, event, restarts, closing>>

\* The database server restarts (an administrator shuts it down): the
\* connections the open pools hold idle, some number of them, and every
\* connection in use are closed by the server.
StaleAfterRestart(pool, n) ==
    IF pool.state = "open"
    THEN [pool EXCEPT !.stale = IF n < pool.max_size - pool.borrowed THEN n
                                 ELSE pool.max_size - pool.borrowed]
    ELSE pool

ServerRestart ==
    /\ restarts < MaxRestarts
    /\ restarts' = restarts + 1
    /\ \E n \in 0..MaxPoolSize :
          pools' = [p \in PoolIds |-> StaleAfterRestart(pools[p], n)]
    /\ q' = [i \in QueryTasks |->
                IF q[i].pc = "held" THEN [q[i] EXCEPT !.stale = TRUE] ELSE q[i]]
    /\ b' = IF b.held > 0 THEN [b EXCEPT !.closed = TRUE] ELSE b
    /\ UNCHANGED <<_pool, _pool_externally_set, _pool_args, created, call, event, closing>>

\* The caller has its answer; the task may call again.
QueryReturn(i) ==
    /\ q[i].pc = "done"
    /\ q' = [q EXCEPT ![i] = IdleQuery]
    /\ UNCHANGED <<_pool, _pool_externally_set, _pool_args, pools, created, call, b, event, restarts, closing>>

\* ------------------------------------------------------------ the bridge
Channels == 1..NumChannels

\* The listen_notify task when it is not running.
IdleBridge ==
    [pc |-> "idle", p |-> None, held |-> 0, closed |-> FALSE, autocommit |-> FALSE,
     subscribed |-> 0, phaseSet |-> FALSE, pending |-> FALSE, notified |-> FALSE,
     exc |-> NoExc, startPool |-> None, hasSet |-> FALSE]

\* listen_notify ends by raising: wrap_exceptions translates the failure.
BridgeFinish(r, raised) ==
    [r EXCEPT !.pc = "done", !.exc = WrapExceptions(raised), !.p = None,
              !.closed = FALSE, !.autocommit = FALSE, !.subscribed = 0,
              !.phaseSet = FALSE, !.pending = FALSE, !.notified = FALSE]

\* Top of "while True" (lines 259-260): self.pool is read, then
\* pool.connection() is awaited.
BridgeLoop(r) ==
    IF PoolAccessorRaises THEN BridgeFinish(r, AppNotOpen(0))
    ELSE [r EXCEPT !.pc = "acquire", !.p = _pool, !.closed = FALSE, !.autocommit = FALSE,
                   !.subscribed = 0, !.phaseSet = FALSE, !.pending = FALSE,
                   !.notified = FALSE]

\* listen_notify, line 249: if self.pool.max_size == 1
ListenDisabledNever == FALSE
ListenDisabled == pools[_pool].max_size = 1

\* listen_notify is called (lines 244-260).
ListenCall ==
    /\ b.pc = "idle"
    /\ LET r == [IdleBridge EXCEPT !.startPool = _pool]
       IN  b' = IF PoolAccessorRaises THEN BridgeFinish(r, AppNotOpen(0))
                ELSE IF ListenDisabled THEN [r EXCEPT !.pc = "done"]
                ELSE BridgeLoop(r)
    /\ UNCHANGED <<_pool, _pool_externally_set, _pool_args, pools, created, call, q, event, restarts, closing>>

\* line 260: the dedicated connection is borrowed; it is a working one, or an
\* idle connection of the pool that the server has closed.
BridgeAcquire ==
    /\ b.pc = "acquire"
    /\ pools[b.p].state = "open"
    /\ \/ /\ pools[b.p].borrowed + pools[b.p].stale < pools[b.p].max_size
          /\ pools' = [pools EXCEPT ![b.p].borrowed = @ + 1]
          /\ b' = [b EXCEPT !.pc = "autocommit", !.held = @ + 1]
       \/ /\ pools[b.p].stale > 0
          /\ pools' = [pools EXCEPT ![b.p].borrowed = @ + 1, ![b.p].stale = @ - 1]
          /\ b' = [b EXCEPT !.pc = "autocommit", !.held = @ + 1, !.closed = TRUE]
    /\ UNCHANGED <<_pool, _pool_externally_set, _pool_args, created, call, q, event, restarts, closing>>

BridgeAcquireFails ==
    /\ b.pc = "acquire"
    /\ \/ /\ pools[b.p].state # "open"
          /\ b' = BridgeFinish(b, PoolNotOpen(0))
       \/ /\ pools[b.p].state = "open"
          /\ pools[b.p].borrowed = pools[b.p].max_size
          /\ b' = BridgeFinish(b, PoolTimeout(0))
    /\ UNCHANGED <<_pool, _pool_externally_set, _pool_args, pools, created, call, q, event, restarts, closing>>

\* Leaving "async with self.pool.connection()": the connection is given back.
HeldAfterLeak(r) == r.held
HeldAfterRelease(r) == r.held - 1

\* The pools once the bridge r0 has become r1 on its way out of the
\* "async with" block: what the bridge no longer holds is back in its pool.
Released(r0, r1) == [pools EXCEPT ![r0.p].borrowed = @ - (r0.held - r1.held)]

\* line 262: await connection.set_autocommit(True)
BridgeAutocommit ==
    /\ b.pc = "autocommit"
    /\ ~b.closed
    /\ b' = [b EXCEPT !.pc = "subscribe", !.autocommit = TRUE]
    /\ UNCHANGED <<_pool, _pool_externally_set, _pool_args, pools, created, call, q, event, restarts, closing>>

\* line 270: event.set() comes after the "for channel_name in channels" loop.
SetsAfterEachSubscribe(r) == r.subscribed >= 1
SetsAfterSubscribe(r) == r.subscribed = NumChannels

\* lines 264-272, 280-285: one subscribe statement; after the last one,
\* event.set(), and _loop_notify starts waiting for notifications (the
\* connection that has just run a statement is not closed).
BridgeSubscribe ==
    /\ b.pc = "subscribe"
    /\ ~b.closed
    /\ LET r == [b EXCEPT !.subscribed = @ + 1]
           sets == SetsAfterSubscribe(r)
       IN  /\ event' = (event \/ sets)
           /\ b' = [r EXCEPT !.hasSet = @ \/ sets, !.phaseSet = sets,
                             !.pc = IF r.subscribed < NumChannels THEN "subscribe"
                                    ELSE "listen"]
    /\ UNCHANGED <<_pool, _pool_externally_set, _pool_args, pools, created, call, q, restarts, closing>>

\* set_autocommit or a subscribe statement raises (on a closed connection an
\* OperationalError): the failure leaves listen_notify, the connection is
\* given back on the way.
BridgeStatementFails(cls) ==
    /\ b.pc \in {"autocommit", "subscribe"}
    /\ b.closed => cls = "OperationalError"
    /\ LET r == [b EXCEPT !.held = HeldAfterRelease(b)]
       IN  /\ pools' = Released(b, r)
           /\ b' = BridgeFinish(r, Raised(cls, OtherMessage, 0))
    /\ UNCHANGED <<_pool, _pool_externally_set, _pool_args, created, call, q, event, restarts, closing>>

\* A NOTIFY on one of the subscribed channels reaches the live connection.
NotificationPublished ==
    /\ b.pc = "listen"
    /\ ~b.closed
    /\ ~b.pending
    /\ b' = [b EXCEPT !.pending = TRUE]
    /\ UNCHANGED <<_pool, _pool_externally_set, _pool_args, pools, created, call, q, event, restarts, closing>>

\* line 286: what "async for _ in notifies" does with each notification.
EventLeftAfterNotify == event
EventAfterNotify == TRUE

\* lines 285-286: the notification comes out of the stream; event.set()
BridgeNotified ==
    /\ b.pc = "listen"
    /\ ~b.closed
    /\ b.pending
    /\ event' = EventAfterNotify
    /\ b' = [b EXCEPT !.hasSet = TRUE, !.pending = FALSE, !.notified = TRUE]
    /\ UNCHANGED <<_pool, _pool_externally_set, _pool_args, pools, created, call, q, restarts, closing>>

\* lines 281-282: if connection.closed: return
LoopNotifyReturnsNever(r) == FALSE
LoopNotifyReturns(r) == r.closed

\* lines 287-288: except psycopg.OperationalError: continue
LoopNotifySwallows(exc) == IsOperationalError(exc)

\* lines 272, 282: _loop_notify returns and "while True" goes round; nothing
\* on the way touches the event.
EventClearedOnReconnect == FALSE
EventAfterReconnect == event

\* lines 281-282, 287-288: the notification stream stops with an
\* OperationalError (or ends); connection.closed is checked again, and
\* _loop_notify returns when it is set: the connection is given back and
\* "while True" goes round.
BridgeStreamBreaks ==
    /\ b.pc = "listen"
    /\ LET exc == Raised("OperationalError", OtherMessage, 0)
           r == [b EXCEPT !.held = HeldAfterRelease(b)]
       IN  IF ~LoopNotifySwallows(exc)
           THEN /\ pools' = Released(b, r)
                /\ b' = BridgeFinish(r, WrapExceptions(exc))
                /\ UNCHANGED event
           ELSE IF LoopNotifyReturns(b)
           THEN /\ pools' = Released(b, r)
                /\ b' = BridgeLoop(r)
                /\ event' = EventAfterReconnect
           ELSE UNCHANGED <<pools, b, event>>
    /\ UNCHANGED <<_pool, _pool_externally_set, _pool_args, created, call, q, restarts, closing>>

\* The notification stream raises a psycopg.Error that is no OperationalError:
\* _loop_notify's wrap_exceptions turns it into a ConnectorException, which
\* leaves listen_notify.
BridgeStreamFails(cls) ==
    /\ b.pc = "listen"
    /\ ~b.closed
    /\ LET r == [b EXCEPT !.held = HeldAfterRelease(b)]
       IN  /\ pools' = Released(b, r)
           /\ b' = BridgeFinish(r, WrapExceptions(Raised(cls, OtherMessage, 0)))
    /\ UNCHANGED <<_pool, _pool_externally_set, _pool_args, created, call, q, event, restarts, closing>>

\* The server (or the network) closes the dedicated connection.
ConnectionLost ==
    /\ b.held > 0
    /\ ~b.closed
    /\ b' = [b EXCEPT !.closed = TRUE]
    /\ UNCHANGED <<_pool, _pool_externally_set, _pool_args, pools, created, call, q, event, restarts, closing>>

\* task.cancel(): CancelledError is raised at the await the task is suspended
\* at (lines 260, 262, 268, 285); it is no psycopg.Error, no handler of this
\* module catches it, and "async with" gives the connection back on the way.
Cancelled == Raised("CancelledError", NoMessage, 0)
HeldAfterCancelLeak(r) == r.held
HeldAfterCancel(r) == IF r.held > 0 THEN HeldAfterRelease(r) ELSE r.held

BridgeCancel ==
    /\ b.pc \in {"acquire", "autocommit", "subscribe", "listen"}
    /\ LET r == [b EXCEPT !.held = HeldAfterCancel(b)]
       IN  /\ pools' = Released(b, r)
           /\ b' = BridgeFinish(r, Cancelled)
    /\ UNCHANGED <<_pool, _pool_externally_set, _pool_args, created, call, q, event, restarts, closing>>

\* The owner of the task has seen listen_notify end; it may start it again.
BridgeReturn ==
    /\ b.pc = "done"
    /\ b' = IdleBridge
    /\ UNCHANGED <<_pool, _pool_externally_set, _pool_args, pools, created, call, q, event, restarts, closing>>

\* A consumer of the signal clears it (event.clear() in the worker).
ConsumerClear ==
    /\ event
    /\ event' = FALSE
    /\ UNCHANGED <<_pool, _pool_externally_set, _pool_args, pools, created, call, q, b, restarts, closing>>

\* ------------------------------------------------------------------ Spec
Init ==
    /\ _pool = None
    /\ _pool_externally_set = FALSE
    /\ _pool_args \in PoolSizes
    /\ pools = [p \in PoolIds |-> AbsentPool]
    /\ created = 0
    /\ call = NoCall
    /\ q = [i \in QueryTasks |-> IdleQuery]
    /\ b = IdleBridge
    /\ event = FALSE
    /\ restarts = 0
    /\ closing = 0

\* open_async and close_async, called one after the other.
NextPool ==
    \/ \E e \in ExternalPools, st \in {"new", "open", "closed"}, m \in PoolSizes :
          OpenAsyncExternal(e, st, m)
    \/ OpenAsyncInternal
    \/ CloseAsync

\* The query entry points, each task at its own suspension point.
NextQuery ==
    \/ \E i \in Queries : QueryCall(i)
    \/ \E i \in Queries : QueryAcquire(i)
    \/ \E i \in Queries : QueryAcquireFails(i)
    \/ \E i \in Queries : QueryExecuteOk(i)
    \/ \E i \in Queries, cls \in RaisedClasses, msg \in Messages : QueryExecuteFails(i, cls, msg)
    \/ \E i \in Queries : QueryReturn(i)

\* listen_notify, its connection and the consumer of the signal.
NextListen ==
    \/ ListenCall
    \/ BridgeAcquire
    \/ BridgeAcquireFails
    \/ BridgeAutocommit
    \/ BridgeSubscribe
    \/ \E cls \in DriverClasses : BridgeStatementFails(cls)
    \/ NotificationPublished
    \/ BridgeNotified
    \/ BridgeStreamBreaks
    \/ \E cls \in DriverClasses \ {"OperationalError"} : BridgeStreamFails(cls)
    \/ ConnectionLost
    \/ BridgeCancel
    \/ BridgeReturn
    \/ ConsumerClear

Next == NextPool \/ NextQuery \/ NextListen

\* The whole connector: lifecycle calls, query operations and the bridge.
Spec == Init /\ [][Next]_vars

\* The lifecycle alone: sequential open_async / close_async calls.
SpecPool == Init /\ [][NextPool]_vars

\* open_async and close_async called by concurrent tasks: a call may run while
\* close_async calls are suspended in pool.close().
SpecRace == Init /\ [][NextPool \/ CloseAsyncSuspends \/ CloseAsyncResumes]_vars

\* Query operations on a connector that creates its own pool, with open_async
\* and close_async called between their suspension points.
SpecQuery == Init /\ [][OpenAsyncInternal \/ CloseAsync \/ NextQuery]_vars

\* The bridge, with open_async and close_async called between its suspension
\* points.
SpecListen == Init /\ [][NextPool \/ NextListen]_vars

\* Query operations run concurrently on a pool whose connections the server
\* closes: an attempt fails with the stale-connection error exactly when its
\* connection is one the server has closed.
NextStorm ==
    \/ ServerRestart
    \/ \E i \in StormQueries : QueryCall(i)
    \/ \E i \in StormQueries : QueryAcquire(i)
    \/ \E i \in StormQueries : QueryAcquireStale(i)
    \/ \E i \in StormQueries : QueryAcquireFails(i)
    \/ \E i \in StormQueries : QueryExecuteOk(i)
    \/ \E i \in StormQueries : QueryExecuteStale(i)
    \/ \E i \in StormQueries : QueryExecuteFails(i, "OperationalError", OtherMessage)
    \/ \E i \in StormQueries : QueryReturn(i)

SpecStorm == Init /\ [][OpenAsyncInternal \/ NextStorm]_vars

\* Concurrent query operations and the bridge on the same pool.
SpecBorrow == Init /\ [][OpenAsyncInternal \/ NextStorm \/ NextListen]_vars

\* The bridge under asyncio's scheduling: the event loop runs every task that
\* is ready, and each await of the bridge (pool.connection(), set_autocommit,
\* execute, the notification stream) ends, by returning or by raising.
BridgeFairness ==
    /\ WF_vars(BridgeAcquire \/ BridgeAcquireFails)
    /\ WF_vars(BridgeAutocommit \/ BridgeSubscribe
                  \/ \E cls \in DriverClasses : BridgeStatementFails(cls))
    /\ WF_vars(BridgeNotified)
    /\ WF_vars(BridgeStreamBreaks)

SpecListenFair == SpecListen /\ BridgeFairness

\* ================================================================ claims
\* The pool a query operation found when it was called has this max_size.
StartMax(r) == pools[r.startPool].max_size
StaleFailure(exc) == exc.cls = "OperationalError" /\ HasStaleMessage(exc)
QueryFailed(r) == r.pc = "done" /\ r.last # NoExc
QuerySucceeded(r) == r.pc = "done" /\ r.last = NoExc

\* C1: a query entry point called on an open connector whose pool has maximum
\* size M, and whose every attempt fails with the stale-connection operational
\* error, is attempted exactly M + 1 times and then raises ConnectorException
\* ("... after M+1 tries") whose cause is the failure of the last attempt.
C1_ExhaustionAfterMaxSizePlusOne ==
    \A i \in Queries :
        (q[i].startPool # None /\ QueryFailed(q[i]) /\ StaleFailure(q[i].last)) =>
            /\ q[i].tries = StartMax(q[i]) + 1
            /\ q[i].last.at = StartMax(q[i]) + 1
            /\ q[i].exc = From("ConnectorException", StartMax(q[i]) + 1, q[i].last)

C1_Witness ==
    \E i \in Queries :
        /\ q[i].startPool # None /\ QueryFailed(q[i]) /\ StaleFailure(q[i].last)
        /\ StartMax(q[i]) = MaxPoolSize
        /\ q[i].tries = MaxPoolSize + 1

\* C2: for every k <= max_size, a query operation that fails with the
\* stale-connection message on its first k attempts and succeeds on attempt
\* k + 1 returns that success: k <= max_size stale failures never end the
\* operation, the success carries no failure, and the operation was attempted
\* exactly k + 1 times, k + 1 <= max_size + 1.
C2_SuccessAfterStaleFailures ==
    \A i \in Queries :
        q[i].startPool # None =>
            /\ (QueryFailed(q[i]) /\ StaleFailure(q[i].last)) => q[i].last.at > StartMax(q[i])
            /\ QuerySucceeded(q[i]) =>
                  /\ q[i].exc = NoExc
                  /\ q[i].tries = q[i].final_exc.at + 1
                  /\ q[i].tries <= StartMax(q[i]) + 1

C2_Witness ==
    \E i \in Queries :
        /\ q[i].startPool # None /\ QuerySucceeded(q[i])
        /\ StartMax(q[i]) = MaxPoolSize
        /\ StaleFailure(q[i].final_exc)
        /\ q[i].final_exc.at = MaxPoolSize
        /\ q[i].tries = MaxPoolSize + 1

\* What wrap_exceptions must hand the caller for the failure exc.
Surfaced(exc) ==
    IF exc.cls = "UniqueViolation" THEN Raised("exceptions.UniqueViolation", NoMessage, 0)
    ELSE IF exc.cls \in DriverClasses THEN From("ConnectorException", 0, exc)
    ELSE exc

C4_SecondOpenIsNoOp ==
    [][(_pool # None /\ call'.op = "open") =>
           /\ _pool' = _pool
           /\ created' = created
           /\ _pool_externally_set' = _pool_externally_set
           /\ pools' = pools]_vars

C4_Witness ==
    /\ call.op = "open"
    /\ call.arg \in ExternalPools
    /\ _pool \in InternalPools
    /\ ~_pool_externally_set
    /\ pools[call.arg].state = "absent"

\* C5: a pool supplied to open_async and adopted is never closed by this
\* layer: it is marked externally owned for as long as it is held, close()
\* is never called on it, and close_async on a connector holding it leaves
\* the pool as it was and the handle unchanged.
C5_ExternalPoolNeverClosed ==
    /\ [](\A e \in ExternalPools : pools[e].closeCalls = 0)
    /\ [](_pool \in ExternalPools <=> _pool_externally_set)
    /\ [][(_pool \in ExternalPools /\ call'.op = "close") =>
              (_pool' = _pool /\ pools' = pools)]_vars

C5_Witness ==
    /\ call.op = "close"
    /\ _pool \in ExternalPools
    /\ pools[_pool].state = "open"

\* C6: close_async on an internally created pool closes it and clears the
\* handle, and the next open_async constructs a fresh pool; close_async with
\* no handle is a no-op; so over any series of open_async / close_async calls
\* the pool currently held was never closed and every other pool this layer
\* constructed was closed exactly once.
C6_InternalPoolClosedOnce ==
    /\ [](\A p \in InternalPools :
            pools[p].state # "absent" =>
                IF p = _pool THEN pools[p].closeCalls = 0 /\ pools[p].state = "open"
                ELSE pools[p].closeCalls = 1 /\ pools[p].state = "closed")
    /\ []((call.op = "close" /\ ~_pool_externally_set) => _pool = None)
    /\ [][(_pool = None /\ call'.op = "close") => (_pool' = None /\ pools' = pools)]_vars
    /\ [][(_pool = None /\ call'.op = "open" /\ call'.arg = None) =>
              /\ _pool' \in InternalPools
              /\ pools[_pool'].state = "absent"
              /\ pools'[_pool'].state = "open"
              /\ created' = created + 1]_vars

C6_Witness ==
    /\ created = 2
    /\ _pool \in InternalPools
    /\ \E p \in InternalPools : p # _pool /\ pools[p].closeCalls = 1 /\ pools[p].state = "closed"

\* C7: whenever a call of open_async returns normally, the pool the connector
\* holds is open, also when the call returned as a no-op because a handle was
\* already held.
C7_OpenReturnsWithOpenPool ==
    (call.op = "open" /\ call.exc = NoExc) => (_pool # None /\ pools[_pool].state = "open")

\* C8: no driver-specific error type escapes open_async, close_async, the
\* query entry points or listen_notify.
C8_NoDriverErrorEscapes ==
    /\ call.exc.cls \notin DriverClasses
    /\ \A i \in Queries : q[i].exc.cls \notin DriverClasses
    /\ b.exc.cls \notin DriverClasses

\* C9: the pool accessor raises AppNotOpen exactly when the connector holds
\* no pool and otherwise returns the handle; a query entry point or
\* listen_notify called in the not-open state surfaces AppNotOpen after a
\* single attempt (budget 1), never borrows a connection and never sets the
\* signal.
C9_NotOpenSurfacesAppNotOpen ==
    /\ \A i \in Queries :
          q[i].pc # "idle" =>
              IF q[i].startPool = None
              THEN /\ q[i].pc = "done"
                   /\ q[i].max_tries = 1
                   /\ q[i].tries = 1
                   /\ q[i].exc = AppNotOpen(1)
              ELSE /\ (q[i].tries = 1 /\ q[i].pc \in {"acquire", "held"}) => q[i].p = q[i].startPool
                   /\ q[i].tries = 1 => q[i].exc.cls # "AppNotOpen"
    /\ b.pc # "idle" =>
          IF b.startPool = None
          THEN b.pc = "done" /\ b.exc = AppNotOpen(0) /\ b.held = 0 /\ ~b.hasSet
          ELSE b.pc = "done" \/ b.hasSet \/ b.p = b.startPool

C9_Witness ==
    /\ created > 0
    /\ _pool = None
    /\ \E i \in Queries : q[i].pc = "done" /\ q[i].startPool = None /\ q[i].exc = AppNotOpen(1)
    /\ b.pc = "done" /\ b.startPool = None /\ b.exc = AppNotOpen(0)

\* C10: listen_notify called on a pool of maximum size 1 returns without
\* acquiring a connection, issuing a subscribe statement or setting the
\* signal; otherwise the bridge holds at most one connection, so that at
\* least max_size - 1 connections of every pool remain for query traffic.
C10_ListenDisabledOnSingleConnectionPool ==
    /\ (b.pc # "idle" /\ b.startPool # None /\ StartMax(b) = 1) =>
          /\ b.pc = "done"
          /\ b.exc = NoExc
          /\ b.held = 0
          /\ b.subscribed = 0
          /\ ~b.hasSet
    /\ b.held <= 1
    /\ \A p \in PoolIds : pools[p].max_size - pools[p].borrowed >= pools[p].max_size - 1

C10_Witness ==
    /\ b.pc = "done"
    /\ b.startPool # None
    /\ StartMax(b) = 1
    /\ pools[b.startPool].state = "open"
    /\ b.exc = NoExc
    /\ ~event


\* The bridge is in its Subscribing phase (connection acquired, signal not yet
\* set on it) or Listening.
Subscribing(r) == r.pc \in {"autocommit", "subscribe"}
Listening(r) == r.pc = "listen"
BridgeEnded(r) == r.pc = "done"

\* C11: in every Subscribing phase the bridge sets the signal only after
\* auto-commit has been enabled and the subscribe statement of every channel
\* has succeeded, one after the other, on the connection it holds; a statement
\* that fails leaves the signal as it was, ends the phase without another
\* subscribe and leaves listen_notify as an exception (no retry).  So whenever
\* the bridge sets the signal its connection is subscribed to all channels.
C11_SignalSetOnlyWhenFullySubscribed ==
    /\ [](b.phaseSet => (b.held = 1 /\ b.autocommit /\ b.subscribed = NumChannels))
    /\ [][((event' /\ ~event) \/ (b'.phaseSet /\ ~b.phaseSet)) =>
            (/\ b.pc \in {"subscribe", "listen"}
             /\ b.autocommit
             /\ ~b.closed
             /\ b'.p = b.p
             /\ b'.held = 1
             /\ b'.phaseSet
             /\ b'.subscribed = NumChannels)]_vars
    /\ [][(b'.subscribed # b.subscribed) =>
            (\/ b'.subscribed = 0
             \/ (b'.subscribed = b.subscribed + 1 /\ b.autocommit /\ b'.p = b.p))]_vars
    /\ [][(Subscribing(b) /\ ~Subscribing(b') /\ ~Listening(b')) =>
            (/\ BridgeEnded(b')
             /\ b'.exc # NoExc
             /\ b'.held = 0
             /\ ~b'.phaseSet
             /\ event' = event)]_vars

C11_Witness ==
    /\ Listening(b)
    /\ b.phaseSet
    /\ b.subscribed = NumChannels
    /\ event

\* The bridge listens on a live connection on which, in this phase, every
\* channel was subscribed and the signal set.
Resubscribed(r) ==
    /\ Listening(r)
    /\ ~r.closed
    /\ r.held = 1
    /\ r.autocommit
    /\ r.subscribed = NumChannels
    /\ r.phaseSet

\* C12: when the dedicated connection becomes closed while the bridge is
\* Listening, then under fair scheduling the bridge leaves the consume loop,
\* gives the dead connection back, and - unless the pool or the fresh
\* connection fails it, or the task is cancelled - acquires another connection,
\* subscribes every channel on it and sets the signal again; the step that
\* leaves the consume loop does not end the task while the connector has a
\* pool.
C12_ReconnectsAfterConnectionLoss ==
    /\ (Listening(b) /\ b.closed) ~> ((Resubscribed(b) /\ event) \/ BridgeEnded(b))
    /\ [][(Listening(b) /\ b.closed /\ b' # b /\ _pool # None) =>
            (\/ b'.exc = Cancelled
             \/ /\ b'.pc = "acquire"
                /\ b'.p = _pool
                /\ b'.held = 0
                /\ b'.subscribed = 0
                /\ pools'[b.p].borrowed = pools[b.p].borrowed - 1)]_vars

C12_Witness ==
    /\ b.pc = "subscribe"
    /\ b.hasSet
    /\ b.subscribed >= 1
    /\ b.held = 1
    /\ ~b.closed

\* C13: a loss of the dedicated connection never ends the bridge's task, in
\* whatever phase it is detected (setting auto-commit, subscribing, consuming
\* notifications): while the bridge holds a connection that has been closed,
\* no step ends listen_notify, unless the task is cancelled or the connector
\* itself has been closed (AppNotOpen).
C13_ConnectionLossNeverTerminates ==
    [][(b.held > 0 /\ b.closed /\ BridgeEnded(b')) =>
            (b'.exc = Cancelled \/ b'.exc = AppNotOpen(0))]_vars

\* C14: while the bridge is Listening on a live connection, a notification
\* published on a subscribed channel is eventually taken out of the stream
\* with the signal set (unless the connection is lost or the task ends
\* first), and every notification the bridge takes out of the stream sets the
\* signal, also after a consumer has cleared it.
C14_NotificationSetsSignal ==
    /\ (Listening(b) /\ ~b.closed /\ b.pending) ~>
            ((~b.pending /\ event) \/ b.closed \/ ~Listening(b))
    /\ [][(b.pending /\ ~b'.pending /\ Listening(b')) => (event' /\ b'.notified)]_vars
    /\ [](b.pending => (Listening(b) /\ b.subscribed = NumChannels))

C14_Witness ==
    /\ Listening(b)
    /\ b.notified
    /\ ~b.pending
    /\ ~b.closed
    /\ event

\* C17: the bridge holds at most one dedicated connection: exactly one while
\* it is Subscribing or Listening, none while it waits for pool.connection()
\* between two reconnect attempts, and none when it is not running; the pool
\* counts exactly that connection as borrowed, and a connection is borrowed
\* only when the previous one has been given back.
C17_AtMostOneDedicatedConnection ==
    /\ [](b.held = IF Subscribing(b) \/ Listening(b) THEN 1 ELSE 0)
    /\ [](\A p \in PoolIds : pools[p].borrowed = IF b.p = p THEN b.held ELSE 0)
    /\ [][(b'.held > b.held) =>
            (b.pc = "acquire" /\ b.held = 0 /\ pools[b.p].borrowed = 0 /\ b'.held = 1)]_vars

C17_Witness ==
    /\ b.pc = "acquire"
    /\ b.hasSet
    /\ b.held = 0
    /\ pools[b.p].borrowed = 0

\* C18: whenever listen_notify ends, by cancellation at one of its awaits
\* (pool.connection(), set_autocommit, a subscribe statement, the notification
\* stream) or by a failure, the dedicated connection has been given back: the
\* bridge holds none and no pool counts one as borrowed.
C18_ConnectionReleasedWhenBridgeEnds ==
    /\ [](BridgeEnded(b) => (b.held = 0 /\ \A p \in PoolIds : pools[p].borrowed = 0))
    /\ [][(~BridgeEnded(b) /\ BridgeEnded(b') /\ b.held > 0) =>
            (pools'[b.p].borrowed = pools[b.p].borrowed - 1 /\ b'.held = 0)]_vars

C18_Witness ==
    /\ BridgeEnded(b)
    /\ b.exc = Cancelled
    /\ b.hasSet
    /\ b.held = 0
    /\ \A p \in PoolIds : pools[p].borrowed = 0

\* C19: this layer only ever sets the signal, and only the bridge does: a step
\* that clears it changes nothing of the connector (it is the consumer's), a
\* step that sets it is a step of the bridge on its subscribed connection and
\* leaves the lifecycle and the query operations alone; so open_async,
\* close_async and the query entry points never touch the signal, and a set
\* signal stays set until a consumer clears it.
C19_OnlyTheBridgeSetsTheSignal ==
    /\ [][(event /\ ~event') =>
            UNCHANGED <<_pool, _pool_externally_set, _pool_args, pools, created, call, q, b>>]_vars
    /\ [][(~event /\ event') =>
            (/\ b.pc \in {"subscribe", "listen"}
             /\ b' # b
             /\ b'.hasSet
             /\ UNCHANGED <<_pool, _pool_externally_set, _pool_args, pools, created, call, q>>)]_vars

C19_Witness ==
    /\ event
    /\ b.pc = "acquire"
    /\ b.hasSet
    /\ call.op = "close"
    /\ \E i \in Queries : q[i].pc = "done"

\* The server has restarted before the query operation r was called, and not
\* since: the connections its pool held at the call are stale, new ones work.
StartedOnStalePool(r) == r.pc # "idle" /\ r.startPool # None /\ r.startRestarts = restarts

\* C15: a query operation called on a pool all of whose connections (at most
\* max_size) are stale, when every failed attempt gets its stale connection
\* dropped and new connections work, never uses up its max_size + 1 attempts
\* on stale connections: it does not end on the stale-connection failure, and
\* when it succeeds it has made at most max_size + 1 attempts; also with
\* several such operations running concurrently on the same pool.
C15_RetryBudgetCoversStalePool ==
    \A i \in StormQueries :
        StartedOnStalePool(q[i]) =>
            /\ q[i].tries <= StartMax(q[i]) + 1
            /\ q[i].pc = "done" => ~StaleFailure(q[i].last)
            /\ q[i].pc = "done" => q[i].exc.n = 0
            /\ (q[i].pc = "done" /\ q[i].last = NoExc) => q[i].exc = NoExc

C15_Witness ==
    \E i \in StormQueries :
        /\ restarts >= 1
        /\ StartedOnStalePool(q[i])
        /\ QuerySucceeded(q[i])
        /\ q[i].exc = NoExc
        /\ StartMax(q[i]) = MaxPoolSize
        /\ q[i].tries = StartMax(q[i]) + 1
        /\ StaleFailure(q[i].final_exc)
        /\ \E j \in StormQueries \ {i} : StartedOnStalePool(q[j]) /\ q[j].pc = "done"

\* The connections of pool p that query operations, and the bridge, hold.
HeldByQueries(p) == Cardinality({i \in QueryTasks : q[i].pc = "held" /\ q[i].p = p})
HeldByBridge(p) == IF b.p = p THEN b.held ELSE 0

\* C16: with concurrent query operations and a running bridge, a pool counts
\* as borrowed exactly one connection for each query operation that is inside
\* an attempt's "async with" and one for the bridge's dedicated connection -
\* so a query operation holds at most one, and none once its attempt has
\* ended, by success, retried failure or propagated failure - and the count
\* never exceeds the pool's max_size.
C16_BorrowsAreReleasedAndBounded ==
    /\ [](\A p \in PoolIds :
            /\ pools[p].borrowed = HeldByQueries(p) + HeldByBridge(p)
            /\ pools[p].borrowed + pools[p].stale <= pools[p].max_size)
    /\ [][\A i \in QueryTasks :
            (q[i].pc = "held" /\ q'[i].pc # "held") =>
                (/\ pools'[q[i].p].borrowed = pools[q[i].p].borrowed - 1
                 /\ q'[i].pc \in {"acquire", "done"})]_vars
    /\ [][\A i \in QueryTasks :
            (q[i].pc # "held" /\ q'[i].pc = "held") =>
                (/\ q[i].pc = "acquire"
                 /\ pools'[q[i].p].borrowed = pools[q[i].p].borrowed + 1)]_vars

C16_Witness ==
    \E i \in StormQueries, j \in StormQueries :
        /\ i # j
        /\ q[i].pc = "held"
        /\ q[j].pc = "acquire"
        /\ q[j].tries >= 2
        /\ q[j].p = q[i].p
        /\ b.p = q[i].p
        /\ b.held = 1
        /\ pools[b.p].borrowed = pools[b.p].max_size

\* C20: under any interleaving of concurrent open_async and close_async calls,
\* once no call is in progress every pool this layer constructed is closed or
\* is the connector's current pool (no open pool of its own is left that the
\* handle no longer reaches), and the pool the accessor returns is not one
\* close_async has closed.
C20_NoOpenPoolLeftUnreachable ==
    closing = 0 =>
        /\ \A p \in InternalPools : p = _pool \/ pools[p].state # "open"
        /\ _pool # None => pools[_pool].closeCalls = 0
====
